---- MODULE Spec2Model ----
(***************************************************************************)
(* Mass-spectral fingerprinting pipeline: the MSP text parser, the three   *)
(* copies of the binning / L2-normalisation transform, and the two batch   *)
(* ingestion loops (MSP file, SQLite table).                               *)
(*                                                                         *)
(* Numbers.  m/z values, intensities and bin sizes are reals in the        *)
(* source.  They are modelled as integers counting hundredths (0.1 is 10), *)
(* so floor(mz / bin_size) is the integer floor division.  A value of the  *)
(* result vector is the pair <<v, d>> standing for the real v / sqrt(d):   *)
(* <<v, 1>> is an un-normalised v, <<v, norm_sq>> is v divided by          *)
(* sqrt(norm_sq).  The sum of the intensities of a bin is a floating-point *)
(* sum: each addition rounds to the nearest value with a significand of    *)
(* SignificandBits bits, ties to even (the source's doubles have 53; the   *)
(* model uses a narrower significand so that rounding occurs within its    *)
(* integers).  The normalisation is exact (no rounding, overflow, NaN).    *)
(*                                                                         *)
(* Text.  A line of the MSP file is a sequence of tokens; " " is a         *)
(* whitespace character, ":" is the colon, every other token is a run of   *)
(* non-blank, non-colon characters.  The trailing newline is not           *)
(* represented (strip() removes it).                                       *)
(***************************************************************************)
EXTENDS Integers, Sequences, FiniteSets, TLC

VARIABLES
    \* ---- transform harness ----
    in_mz, in_inten, in_bin, out,
    \* ---- ingestion run: configuration and source ----
    path, lines, rows, bin_size, batch_size, id_key,
    \* ---- parse_msp generator frame ----
    gpc, pos, meta, peaks, in_peaks,
    \* ---- main() frame ----
    pc, cur, idx, batch, total, exc, reported,
    \* ---- observation of the run (history) ----
    upserts, pulled, handled, yielded,
    \* ---- the blocks an MSP input was written from ----
    blocks,
    \* ---- search_csv.main frame and the search requests it sent ----
    q_pc, q_csv, q_mz, q_inten, q_vec, q_sent, q_ret,
    \* ---- the index service and the ensure_collection callers ----
    exists, wpc, creates

tvars == <<in_mz, in_inten, in_bin, out>>
cfgvars == <<path, lines, rows, bin_size, batch_size, id_key>>
genvars == <<gpc, pos, meta, peaks, in_peaks>>
mainvars == <<pc, cur, idx, batch, total, exc, reported>>
histvars == <<upserts, pulled, handled, yielded>>
searchvars == <<q_pc, q_csv, q_mz, q_inten, q_vec, q_sent, q_ret>>
collvars == <<exists, wpc, creates>>
othervars == <<blocks, searchvars, collvars>>
vars == <<tvars, cfgvars, genvars, mainvars, histvars, othervars>>

----------------------------------------------------------------------------
(* Bounds of the model *)

MaxPeaks == 3
MaxLines == 5
MaxRows == 3
MaxBatch == 2
MaxCsvRows == 3
MaxParseLines == 4
MaxBlocks == 2
MaxWorkers == 2
MaxRequests == 2

----------------------------------------------------------------------------
(* Generic helpers *)

Min(S) == CHOOSE x \in S : \A y \in S : x <= y

RECURSIVE SortedSeq_desc(_)
\* the keys in descending order
SortedSeq_desc(S) ==
    IF S = {} THEN <<>>
    ELSE LET mx == CHOOSE x \in S : \A y \in S : y <= x
         IN  <<mx>> \o SortedSeq_desc(S \ {mx})

RECURSIVE SortedSeq(_)
\* sorted(keys): the elements of a finite set of integers, ascending
SortedSeq(S) == IF S = {} THEN <<>> ELSE <<Min(S)>> \o SortedSeq(S \ {Min(S)})

RECURSIVE SumSq(_)
\* sum(v * v for v in values) over a sequence of integers
SumSq(vs) == IF vs = <<>> THEN 0 ELSE Head(vs) * Head(vs) + SumSq(Tail(vs))

\* dict.get(k, d) on a dict modelled as a function with a finite domain
Get(d, k, dflt) == IF k \in DOMAIN d THEN d[k] ELSE dflt

\* d[k] = v on a dict modelled as a function with a finite domain
Put(d, k, v) == [x \in DOMAIN d \cup {k} |-> IF x = k THEN v ELSE d[x]]

EmptyDict == [x \in {} |-> 0]

\* width of the significand of a float of the model
SignificandBits == 10

RECURSIVE Pow2(_)
Pow2(n) == IF n = 0 THEN 1 ELSE 2 * Pow2(n - 1)

\* below this every integer is a float
ExactLimit == Pow2(SignificandBits)

RECURSIVE Ulp(_)
\* spacing of the floats around x >= 0
Ulp(x) == IF x < ExactLimit THEN 1 ELSE 2 * Ulp(x \div 2)

\* x >= 0 rounded to the nearest float, ties to the even significand
RoundNonNeg(x) ==
    LET u == Ulp(x)
        q == x \div u
        r == x % u
    IN  IF 2 * r < u THEN q * u
        ELSE IF 2 * r > u THEN (q + 1) * u
        ELSE IF q % 2 = 0 THEN q * u ELSE (q + 1) * u

\* a + b on floats
fadd(a, b) == IF a + b >= 0 THEN RoundNonNeg(a + b) ELSE 0 - RoundNonNeg(0 - (a + b))

\* int(math.floor(m / bin_size)) for bin_size > 0
FloorDiv(m, b) == m \div b

\* The (indices, values) pair returned by a transform
Vec(ix, vs) == [tag |-> "ok", indices |-> ix, values |-> vs]

EmptyVec == Vec(<<>>, <<>>)

RaisedValueError == [tag |-> "ValueError"]

\* sorted keys, parallel values, then the guarded L2 normalisation
Normalized(acc) ==
    LET indices == SortedSeq(DOMAIN acc)
        values == [k \in 1..Len(indices) |-> acc[indices[k]]]
        norm_sq == SumSq(values)
    IN  IF norm_sq > 0
        THEN Vec(indices, [k \in 1..Len(indices) |-> <<values[k], norm_sq>>])
        ELSE Vec(indices, [k \in 1..Len(indices) |-> <<values[k], 1>>])

----------------------------------------------------------------------------
(* ingest_msp.bin_peaks *)

RECURSIVE bin_peaks_acc_replace(_, _, _)
\* the accumulation with the later peak of a bin replacing the earlier ones
bin_peaks_acc_replace(ps, bsz, accumulator) ==
    IF ps = <<>> THEN accumulator
    ELSE LET mz == Head(ps)[1]
             inten == Head(ps)[2]
         IN  IF inten <= 0 \/ mz < 0
             THEN bin_peaks_acc_replace(Tail(ps), bsz, accumulator)
             ELSE bin_peaks_acc_replace(Tail(ps), bsz,
                     Put(accumulator, FloorDiv(mz, bsz), inten))

RECURSIVE bin_peaks_acc_max(_, _, _)
\* the accumulation keeping the largest peak of a bin
bin_peaks_acc_max(ps, bsz, accumulator) ==
    IF ps = <<>> THEN accumulator
    ELSE LET mz == Head(ps)[1]
             inten == Head(ps)[2]
             old == Get(accumulator, FloorDiv(mz, bsz), 0)
         IN  IF inten <= 0 \/ mz < 0
             THEN bin_peaks_acc_max(Tail(ps), bsz, accumulator)
             ELSE bin_peaks_acc_max(Tail(ps), bsz,
                     Put(accumulator, FloorDiv(mz, bsz), IF inten > old THEN inten ELSE old))

RECURSIVE bin_peaks_acc(_, _, _)
bin_peaks_acc(ps, bsz, accumulator) ==
    IF ps = <<>> THEN accumulator
    ELSE LET mz == Head(ps)[1]
             inten == Head(ps)[2]
         IN  IF inten <= 0 \/ mz < 0
             THEN bin_peaks_acc(Tail(ps), bsz, accumulator)
             ELSE bin_peaks_acc(Tail(ps), bsz,
                     Put(accumulator, FloorDiv(mz, bsz),
                         fadd(Get(accumulator, FloorDiv(mz, bsz), 0), inten)))

bin_peaks(ps, bsz) ==
    LET accumulator == bin_peaks_acc(ps, bsz, EmptyDict)
    IN  IF DOMAIN accumulator = {} THEN EmptyVec ELSE Normalized(accumulator)

----------------------------------------------------------------------------
(* ingest_sqlite.bin_spectrum *)

RECURSIVE bin_spectrum_sqlite_acc(_, _, _, _)
bin_spectrum_sqlite_acc(mz, inten, bsz, accumulator) ==
    IF mz = <<>> \/ inten = <<>> THEN accumulator
    ELSE LET m == Head(mz)
             i == Head(inten)
         IN  IF i = 0
             THEN bin_spectrum_sqlite_acc(Tail(mz), Tail(inten), bsz, accumulator)
             ELSE IF m < 0
             THEN bin_spectrum_sqlite_acc(Tail(mz), Tail(inten), bsz, accumulator)
             ELSE bin_spectrum_sqlite_acc(Tail(mz), Tail(inten), bsz,
                     Put(accumulator, FloorDiv(m, bsz),
                         fadd(Get(accumulator, FloorDiv(m, bsz), 0), i)))

bin_spectrum_sqlite(mz, inten, bsz) ==
    IF Len(mz) # Len(inten) THEN RaisedValueError
    ELSE LET accumulator == bin_spectrum_sqlite_acc(mz, inten, bsz, EmptyDict)
         IN  IF DOMAIN accumulator = {} THEN EmptyVec ELSE Normalized(accumulator)

----------------------------------------------------------------------------
(* search_csv.bin_spectrum *)

RECURSIVE bin_spectrum_csv_acc(_, _, _, _)
bin_spectrum_csv_acc(mz, inten, bsz, acc) ==
    IF mz = <<>> \/ inten = <<>> THEN acc
    ELSE LET m == Head(mz)
             i == Head(inten)
         IN  IF i <= 0 \/ m < 0
             THEN bin_spectrum_csv_acc(Tail(mz), Tail(inten), bsz, acc)
             ELSE bin_spectrum_csv_acc(Tail(mz), Tail(inten), bsz,
                     Put(acc, FloorDiv(m, bsz),
                         fadd(Get(acc, FloorDiv(m, bsz), 0), i)))

bin_spectrum_csv(mz, inten, bsz) ==
    IF Len(mz) # Len(inten) THEN RaisedValueError
    ELSE LET acc == bin_spectrum_csv_acc(mz, inten, bsz, EmptyDict)
         IN  IF DOMAIN acc = {} THEN EmptyVec ELSE Normalized(acc)

----------------------------------------------------------------------------
(* Input domains *)

\* m/z values in hundredths: negative, and two that fall into bins 0 and 5 at
\* bin size 0.1 and share bin 0 at bin size 1.0
MzVals == {-5, 5, 50}

\* intensities in hundredths: negative, zero, and two positive ones whose sums
\* need rounding
IntenVals == {-1, 0, 1, 1024}

\* --bin-size in hundredths: 0.1 (the default) and 1.0
BinSizes == {10, 100}

RECURSIVE SeqsUpTo(_, _)
\* all sequences over S of length 0..n
SeqsUpTo(S, n) ==
    IF n = 0 THEN {<<>>}
    ELSE LET shorter == SeqsUpTo(S, n - 1)
         IN  shorter \cup {Append(q, x) : q \in {r \in shorter : Len(r) = n - 1}, x \in S}

Firsts(ps) == [k \in 1..Len(ps) |-> ps[k][1]]
Seconds(ps) == [k \in 1..Len(ps) |-> ps[k][2]]
Zip(a, b) == [k \in 1..(IF Len(a) <= Len(b) THEN Len(a) ELSE Len(b)) |-> <<a[k], b[k]>>]

NotRun == [tag |-> "notrun"]

\* values of the variables a specification does not use
IdleTransform ==
    /\ in_mz = <<>> /\ in_inten = <<>> /\ in_bin = 0
    /\ out = [msp |-> NotRun, sqlite |-> NotRun, csv |-> NotRun]

IdleSearch ==
    /\ q_pc = "idle" /\ q_csv = <<>> /\ q_mz = <<>> /\ q_inten = <<>>
    /\ q_vec = NotRun /\ q_sent = <<>> /\ q_ret = -1

IdleCollection == exists = FALSE /\ wpc = <<>> /\ creates = 0

IdleFrames ==
    /\ gpc = "idle" /\ pos = 0 /\ meta = EmptyDict /\ peaks = <<>> /\ in_peaks = FALSE
    /\ pc = "idle" /\ cur = <<>> /\ idx = 0 /\ batch = <<>> /\ total = 0
    /\ exc = "none" /\ reported = -1
    /\ upserts = <<>> /\ pulled = 0 /\ handled = 0 /\ yielded = <<>>

IdleIngest ==
    /\ blocks = <<>> /\ IdleSearch /\ IdleCollection
    /\ path = "none" /\ lines = <<>> /\ rows = <<>>
    /\ bin_size = 0 /\ batch_size = 0 /\ id_key = <<>>
    /\ IdleFrames

----------------------------------------------------------------------------
(* The three transforms applied to one input *)

InitTransform ==
    /\ \E ps \in SeqsUpTo(MzVals \X IntenVals, MaxPeaks) :
       \E extra \in {<<>>, <<5>>} :
          /\ in_mz = Firsts(ps) \o extra
          /\ in_inten = Seconds(ps)
    /\ in_bin \in BinSizes
    /\ out = [msp |-> NotRun, sqlite |-> NotRun, csv |-> NotRun]
    /\ IdleIngest

\* ingest_msp.main: bin_peaks on a list of (mz, intensity) pairs
Apply_bin_peaks ==
    /\ out.msp = NotRun
    /\ Len(in_mz) = Len(in_inten)
    /\ out' = [out EXCEPT !.msp = bin_peaks(Zip(in_mz, in_inten), in_bin)]
    /\ UNCHANGED <<in_mz, in_inten, in_bin, cfgvars, othervars, genvars, mainvars, histvars>>

\* ingest_sqlite.main: bin_spectrum on the two decoded lists
Apply_bin_spectrum_sqlite ==
    /\ out.sqlite = NotRun
    /\ out' = [out EXCEPT !.sqlite = bin_spectrum_sqlite(in_mz, in_inten, in_bin)]
    /\ UNCHANGED <<in_mz, in_inten, in_bin, cfgvars, othervars, genvars, mainvars, histvars>>

\* search_csv.main: bin_spectrum on the two columns read from the CSV
Apply_bin_spectrum_csv ==
    /\ out.csv = NotRun
    /\ out' = [out EXCEPT !.csv = bin_spectrum_csv(in_mz, in_inten, in_bin)]
    /\ UNCHANGED <<in_mz, in_inten, in_bin, cfgvars, othervars, genvars, mainvars, histvars>>

NextTransform ==
    \/ Apply_bin_peaks
    \/ Apply_bin_spectrum_sqlite
    \/ Apply_bin_spectrum_csv

SpecTransform == InitTransform /\ [][NextTransform]_vars

----------------------------------------------------------------------------
(* Text of an MSP line *)

Whitespace == {" "}

RECURSIVE lstrip(_)
lstrip(s) == IF s # <<>> /\ Head(s) \in Whitespace THEN lstrip(Tail(s)) ELSE s

RECURSIVE rstrip(_)
rstrip(s) ==
    IF s # <<>> /\ s[Len(s)] \in Whitespace THEN rstrip(SubSeq(s, 1, Len(s) - 1)) ELSE s

\* str.strip()
strip(s) == rstrip(lstrip(s))

\* ":" in line
HasColon(s) == \E k \in 1..Len(s) : s[k] = ":"

\* line.split(":", 1), for a line that holds a colon: <<before, after>>
split_colon(s) ==
    LET c == Min({k \in 1..Len(s) : s[k] = ":"})
    IN  <<SubSeq(s, 1, c - 1), SubSeq(s, c + 1, Len(s))>>

\* str.lower() of one token
LowerTok(t) ==
    CASE t \in {"Num", "NUM"} -> "num"
      [] t \in {"Peaks", "PEAKS"} -> "peaks"
      [] t = "NAME" -> "name"
      [] OTHER -> t

\* str.lower() that leaves the letters as they are
lower_asis(s) == s

\* str.lower()
lower(s) == [k \in 1..Len(s) |-> LowerTok(s[k])]

NumPeaksKey == <<"num", " ", "peaks">>

RECURSIVE split_ws(_)
\* line.split(): the maximal runs of non-whitespace
split_ws(s) ==
    LET t == lstrip(s)
    IN  IF t = <<>> THEN <<>>
        ELSE LET n == Min({k \in 1..(Len(t) + 1) : k = Len(t) + 1 \/ t[k] \in Whitespace}) - 1
             IN  <<SubSeq(t, 1, n)>> \o split_ws(SubSeq(t, n + 1, Len(t)))

\* the decimal literals of the input alphabet and their values in hundredths
NumTok == [t \in {"0", "0.5", "10.0"} |-> CASE t = "0" -> 0 [] t = "0.5" -> 50 [] t = "10.0" -> 1000]

\* float(part) succeeds
IsFloat(part) == Len(part) = 1 /\ part[1] \in DOMAIN NumTok

\* float(part), when it succeeds
float(part) == NumTok[part[1]]

\* the dictionary parse_msp yields (meta.copy(), peaks.copy())
Record(m, ps) == [metadata |-> m, peaks |-> ps]

\* yield_current without its `if peaks` guard
yield_current_unguarded(m, ps) == <<Record(m, ps)>>

\* body of yield_current: the records it yields (none or one)
yield_current(m, ps) == IF ps # <<>> THEN <<Record(m, ps)>> ELSE <<>>

----------------------------------------------------------------------------
(* Ingestion inputs *)

L_blank == <<>>
L_name == <<"NAME", ":", " ", "foo">>
L_numpeaks == <<"Num", " ", "Peaks", ":", " ", "1">>
L_peak == <<"0.5", " ", "10.0">>
L_zero == <<"0.5", " ", "0">>

MspLines == {L_blank, L_name, L_numpeaks, L_peak, L_zero}

\* a column value of a row: NULL, text that decodes to a JSON array of numbers,
\* or text that does not
Null == [kind |-> "null", arr |-> <<>>]
Json(a) == [kind |-> "json", arr |-> a]
BadText == [kind |-> "bad", arr |-> <<>>]

\* (mz column, intensity column) of the rows of the input table
RowKinds == {
    <<Json(<<50>>), Json(<<1000>>)>>,
    <<Json(<<50>>), Json(<<-1000>>)>>,
    <<Json(<<50>>), Json(<<0>>)>>,
    <<Json(<<50, 60>>), Json(<<1000>>)>>,
    <<Json(<<50>>), BadText>>,
    <<Null, Null>> }

\* the table: the id column is the row's position (a key)
Table(ks) == [k \in 1..Len(ks) |-> [rid |-> k, mz_json |-> ks[k][1], inten_json |-> ks[k][2]]]

\* HTTP status codes the service answers an upsert with
StatusCodes == {200, 500}

\* --bin-size of an ingestion run: the default 0.1
RunBinSizes == {10}

\* --id-key: absent, or the NAME header
IdKeys == {<<>>, <<"NAME">>}

NoRecord == [metadata |-> EmptyDict, peaks |-> <<>>]
NoRow == [rid |-> 0, mz_json |-> Null, inten_json |-> Null]

InitRun ==
    /\ gpc = "loop" /\ pos = 0 /\ meta = EmptyDict /\ peaks = <<>> /\ in_peaks = FALSE
    /\ idx = 0 /\ batch = <<>> /\ total = 0 /\ exc = "none" /\ reported = -1
    /\ upserts = <<>> /\ pulled = 0 /\ handled = 0 /\ yielded = <<>>
    /\ bin_size \in RunBinSizes
    /\ batch_size \in 1..MaxBatch
    /\ IdleTransform /\ IdleSearch /\ IdleCollection

InitMsp ==
    /\ path = "msp"
    /\ blocks = <<>>
    /\ lines \in SeqsUpTo(MspLines, MaxLines)
    /\ rows = <<>>
    /\ id_key \in IdKeys
    /\ pc = "next"
    /\ cur = NoRecord
    /\ InitRun

InitSqlite ==
    /\ path = "sqlite"
    /\ blocks = <<>>
    /\ lines = <<>>
    /\ rows \in {Table(ks) : ks \in SeqsUpTo(RowKinds, MaxRows)}
    /\ id_key = <<>>
    /\ pc = "fetch"
    /\ cur = NoRow
    /\ InitRun

Init == InitMsp \/ InitSqlite

----------------------------------------------------------------------------
(* parse_msp: a generator, advanced only by the for loop of ingest_msp.main.  *)
(* gpc is where its frame stands: "loop" (at the head of `for raw in f`),     *)
(* "at_yield_blank" (suspended at the yield of the blank-line branch),        *)
(* "at_yield_final" (suspended at the yield of the final flush), "done".      *)

\* a generator that also runs ahead while main handles the record in hand
Resumed_prefetch == path = "msp" /\ pc \in {"next", "body"}

\* the for loop of main is asking the generator for its next item
Resumed == path = "msp" /\ pc = "next"

\* the generator hands a record to the loop of main and is suspended at `at`
Yield(rec, at) ==
    /\ gpc' = at
    /\ cur' = rec
    /\ pc' = "body"
    /\ pulled' = pulled + 1
    /\ yielded' = Append(yielded, rec)

\* the generator returns: StopIteration ends the loop of main
Return ==
    /\ gpc' = "done"
    /\ pc' = "final"
    /\ UNCHANGED <<cur, pulled, yielded>>

\* `for raw in f` reads a line that is empty after strip()
parse_msp_blank ==
    /\ Resumed /\ gpc = "loop" /\ pos < Len(lines)
    /\ strip(lines[pos + 1]) = <<>>
    /\ pos' = pos + 1
    /\ IF peaks # <<>> \/ meta # EmptyDict
       THEN LET items == yield_current(meta, peaks)
            IN  IF items # <<>>
                THEN /\ Yield(items[1], "at_yield_blank")
                     /\ UNCHANGED <<meta, peaks, in_peaks>>
                ELSE /\ meta' = EmptyDict /\ peaks' = <<>> /\ in_peaks' = FALSE
                     /\ UNCHANGED <<gpc, cur, pc, pulled, yielded>>
       ELSE UNCHANGED <<meta, peaks, in_peaks, gpc, cur, pc, pulled, yielded>>
    /\ UNCHANGED <<tvars, cfgvars, othervars, idx, batch, total, exc, reported, upserts, handled>>

\* the same resumption after a yield of the buffers themselves in place of
\* meta.copy() and peaks.copy(): the reset empties the record already handed out
parse_msp_resume_blank_shared ==
    /\ Resumed /\ gpc = "at_yield_blank"
    /\ meta' = EmptyDict /\ peaks' = <<>> /\ in_peaks' = FALSE
    /\ gpc' = "loop"
    /\ cur' = NoRecord
    /\ yielded' = [yielded EXCEPT ![Len(yielded)] = NoRecord]
    /\ UNCHANGED <<tvars, cfgvars, othervars, pos, pc, idx, batch, total, exc, reported>>
    /\ UNCHANGED <<upserts, pulled, handled>>

\* next() on the generator suspended in the blank-line branch: yield_current is
\* exhausted, then meta.clear(); peaks.clear(); in_peaks = False; continue
parse_msp_resume_blank ==
    /\ Resumed /\ gpc = "at_yield_blank"
    /\ meta' = EmptyDict /\ peaks' = <<>> /\ in_peaks' = FALSE
    /\ gpc' = "loop"
    /\ UNCHANGED <<tvars, cfgvars, othervars, pos, mainvars, histvars>>

\* a non-blank line read while in_peaks is False
parse_msp_meta ==
    /\ Resumed /\ gpc = "loop" /\ pos < Len(lines)
    /\ strip(lines[pos + 1]) # <<>>
    /\ ~in_peaks
    /\ pos' = pos + 1
    /\ LET line == strip(lines[pos + 1])
       IN  IF HasColon(line)
           THEN LET key == strip(split_colon(line)[1])
                    value == strip(split_colon(line)[2])
                IN  IF lower(key) = NumPeaksKey
                    THEN in_peaks' = TRUE /\ UNCHANGED meta
                    ELSE meta' = Put(meta, key, value) /\ UNCHANGED in_peaks
           ELSE UNCHANGED <<meta, in_peaks>>
    /\ UNCHANGED <<tvars, cfgvars, othervars, gpc, peaks, mainvars, histvars>>

\* a parser that takes a header line for the start of the next spectrum's
\* metadata even while it reads peaks
parse_msp_peak_header ==
    /\ Resumed /\ gpc = "loop" /\ pos < Len(lines)
    /\ strip(lines[pos + 1]) # <<>>
    /\ in_peaks
    /\ pos' = pos + 1
    /\ LET line == strip(lines[pos + 1])
           parts == split_ws(line)
       IN  IF HasColon(line) /\ lower(strip(split_colon(line)[1])) # NumPeaksKey
           THEN /\ meta' = Put(meta, strip(split_colon(line)[1]), strip(split_colon(line)[2]))
                /\ in_peaks' = FALSE
                /\ UNCHANGED peaks
           ELSE /\ IF Len(parts) >= 2 /\ IsFloat(parts[1]) /\ IsFloat(parts[2])
                   THEN peaks' = Append(peaks, <<float(parts[1]), float(parts[2])>>)
                   ELSE UNCHANGED peaks
                /\ UNCHANGED <<meta, in_peaks>>
    /\ UNCHANGED <<tvars, cfgvars, othervars, gpc, mainvars, histvars>>

\* a non-blank line read while in_peaks is True
parse_msp_peak ==
    /\ Resumed /\ gpc = "loop" /\ pos < Len(lines)
    /\ strip(lines[pos + 1]) # <<>>
    /\ in_peaks
    /\ pos' = pos + 1
    /\ LET parts == split_ws(strip(lines[pos + 1]))
       IN  IF Len(parts) >= 2 /\ IsFloat(parts[1]) /\ IsFloat(parts[2])
           THEN peaks' = Append(peaks, <<float(parts[1]), float(parts[2])>>)
           ELSE UNCHANGED peaks
    /\ UNCHANGED <<tvars, cfgvars, othervars, gpc, meta, in_peaks, mainvars, histvars>>

\* end of input without the final flush
parse_msp_eof_noflush ==
    /\ Resumed /\ gpc = "loop" /\ pos = Len(lines)
    /\ Return
    /\ UNCHANGED <<tvars, cfgvars, othervars, pos, meta, peaks, in_peaks>>
    /\ UNCHANGED <<idx, batch, total, exc, reported, upserts, handled>>

\* the file is exhausted: flush last spectrum
parse_msp_eof ==
    /\ Resumed /\ gpc = "loop" /\ pos = Len(lines)
    /\ IF peaks # <<>> \/ meta # EmptyDict
       THEN LET items == yield_current(meta, peaks)
            IN  IF items # <<>> THEN Yield(items[1], "at_yield_final") ELSE Return
       ELSE Return
    /\ UNCHANGED <<tvars, cfgvars, othervars, pos, meta, peaks, in_peaks>>
    /\ UNCHANGED <<idx, batch, total, exc, reported, upserts, handled>>

\* next() on the generator suspended in the final flush: it returns
parse_msp_resume_final ==
    /\ Resumed /\ gpc = "at_yield_final"
    /\ Return
    /\ UNCHANGED <<tvars, cfgvars, othervars, pos, meta, peaks, in_peaks>>
    /\ UNCHANGED <<idx, batch, total, exc, reported, upserts, handled>>

----------------------------------------------------------------------------
(* upsert_batch and the loop of ingest_msp.main *)

\* upsert_batch that never looks at the response status
upsert_batch_unchecked(status) == "none"

\* upsert_batch: the exception it raises for a response status, or "none"
upsert_batch(status) == IF status >= 300 THEN "RuntimeError" ELSE "none"

\* the capacity test with > in place of >=
BatchFull_strict(b, capacity) == Len(b) > capacity

\* len(batch) >= args.batch_size
BatchFull(b, capacity) == Len(b) >= capacity

\* dict.setdefault(k, v)
SetDefault(d, k, v) == IF k \in DOMAIN d THEN d ELSE Put(d, k, v)

\* the payload of a point: meta, with original_id when --id-key names a key of it
Payload(m, key) ==
    IF key # <<>> /\ key \in DOMAIN m
    THEN SetDefault(m, <<"original_id">>, m[key])
    ELSE m

Point(id, v, m) ==
    [id |-> id, sparse |-> [indices |-> v.indices, values |-> v.values], metadata |-> m]

Call(b, status) == [points |-> b, status |-> status]

\* body of the for loop up to the capacity test; str(uuid.uuid4()) is a fresh
\* identifier, modelled as the ordinal of the record
msp_body ==
    /\ path = "msp" /\ pc = "body"
    /\ LET v == bin_peaks(cur.peaks, bin_size)
       IN  IF v.indices = <<>>
           THEN /\ pc' = "next" /\ handled' = handled + 1
                /\ UNCHANGED batch
           ELSE /\ batch' = Append(batch, Point(pulled, v, Payload(cur.metadata, id_key)))
                /\ IF BatchFull(batch', batch_size)
                   THEN pc' = "flush" /\ UNCHANGED handled
                   ELSE pc' = "next" /\ handled' = handled + 1
    /\ UNCHANGED <<tvars, cfgvars, othervars, genvars, cur, idx, total, exc, reported>>
    /\ UNCHANGED <<upserts, pulled, yielded>>

\* the batch is full: upsert_batch; total += len(batch); batch.clear()
msp_upsert ==
    /\ path = "msp" /\ pc = "flush"
    /\ \E status \in StatusCodes :
          /\ upserts' = Append(upserts, Call(batch, status))
          /\ IF upsert_batch(status) # "none"
             THEN /\ exc' = upsert_batch(status) /\ pc' = "aborted"
                  /\ UNCHANGED <<batch, total, handled>>
             ELSE /\ total' = total + Len(batch)
                  /\ batch' = <<>>
                  /\ handled' = handled + 1
                  /\ pc' = "next"
                  /\ UNCHANGED exc
    /\ UNCHANGED <<tvars, cfgvars, othervars, genvars, cur, idx, reported, pulled, yielded>>

\* after the loop: flush the partial batch, print the count
msp_final ==
    /\ path = "msp" /\ pc = "final"
    /\ IF batch # <<>>
       THEN \E status \in StatusCodes :
               /\ upserts' = Append(upserts, Call(batch, status))
               /\ IF upsert_batch(status) # "none"
                  THEN /\ exc' = upsert_batch(status) /\ pc' = "aborted"
                       /\ UNCHANGED <<total, reported>>
                  ELSE /\ total' = total + Len(batch)
                       /\ reported' = total'
                       /\ pc' = "done"
                       /\ UNCHANGED exc
       ELSE /\ reported' = total /\ pc' = "done"
            /\ UNCHANGED <<upserts, total, exc>>
    /\ UNCHANGED <<tvars, cfgvars, othervars, genvars, cur, idx, batch, pulled, handled, yielded>>

----------------------------------------------------------------------------
(* ingest_sqlite.main (--limit left at its default: no LIMIT clause) *)

\* parse_json_array: the decoded list, or the ValueError it raises
parse_json_array(value) ==
    CASE value.kind = "null" -> [ok |-> TRUE, val |-> <<>>]
      [] value.kind = "json" -> [ok |-> TRUE, val |-> value.arr]
      [] OTHER -> [ok |-> FALSE, val |-> <<>>]

\* rows = list(iter_rows(...)): the whole result set is read from the cursor
sqlite_fetch ==
    /\ path = "sqlite" /\ pc = "fetch"
    /\ pulled' = Len(rows)
    /\ pc' = "next"
    /\ UNCHANGED <<tvars, cfgvars, othervars, genvars, cur, idx, batch, total, exc, reported>>
    /\ UNCHANGED <<upserts, handled, yielded>>

\* the for statement takes the next row of the list, or ends the loop
sqlite_next ==
    /\ path = "sqlite" /\ pc = "next"
    /\ IF idx < Len(rows)
       THEN idx' = idx + 1 /\ cur' = rows[idx + 1] /\ pc' = "body"
       ELSE pc' = "final" /\ UNCHANGED <<idx, cur>>
    /\ UNCHANGED <<tvars, cfgvars, othervars, genvars, batch, total, exc, reported, histvars>>

\* body of the for loop up to the capacity test
sqlite_body ==
    /\ path = "sqlite" /\ pc = "body"
    /\ LET mz == parse_json_array(cur.mz_json)
           intensities == parse_json_array(cur.inten_json)
           v == bin_spectrum_sqlite(mz.val, intensities.val, bin_size)
       IN  IF ~mz.ok \/ ~intensities.ok
           THEN /\ pc' = "next" /\ handled' = handled + 1
                /\ UNCHANGED <<batch, exc>>
           ELSE IF v = RaisedValueError
           THEN /\ exc' = "ValueError" /\ pc' = "aborted"
                /\ UNCHANGED <<batch, handled>>
           ELSE IF v.indices = <<>>
           THEN /\ pc' = "next" /\ handled' = handled + 1
                /\ UNCHANGED <<batch, exc>>
           ELSE /\ batch' = Append(batch, Point(cur.rid, v, EmptyDict))
                /\ UNCHANGED exc
                /\ IF BatchFull(batch', batch_size)
                   THEN pc' = "flush" /\ UNCHANGED handled
                   ELSE pc' = "next" /\ handled' = handled + 1
    /\ UNCHANGED <<tvars, cfgvars, othervars, genvars, cur, idx, total, reported>>
    /\ UNCHANGED <<upserts, pulled, yielded>>

\* the flush of a full batch without batch.clear()
sqlite_upsert_noclear ==
    /\ path = "sqlite" /\ pc = "flush"
    /\ \E status \in StatusCodes :
          /\ upserts' = Append(upserts, Call(batch, status))
          /\ IF upsert_batch(status) # "none"
             THEN /\ exc' = upsert_batch(status) /\ pc' = "aborted"
                  /\ UNCHANGED <<total, handled>>
             ELSE /\ total' = total + Len(batch)
                  /\ handled' = handled + 1
                  /\ pc' = "next"
                  /\ UNCHANGED exc
    /\ UNCHANGED <<tvars, cfgvars, othervars, genvars, cur, idx, batch, reported, pulled, yielded>>

\* the batch is full: upsert_batch; total += len(batch); batch.clear()
sqlite_upsert ==
    /\ path = "sqlite" /\ pc = "flush"
    /\ \E status \in StatusCodes :
          /\ upserts' = Append(upserts, Call(batch, status))
          /\ IF upsert_batch(status) # "none"
             THEN /\ exc' = upsert_batch(status) /\ pc' = "aborted"
                  /\ UNCHANGED <<batch, total, handled>>
             ELSE /\ total' = total + Len(batch)
                  /\ batch' = <<>>
                  /\ handled' = handled + 1
                  /\ pc' = "next"
                  /\ UNCHANGED exc
    /\ UNCHANGED <<tvars, cfgvars, othervars, genvars, cur, idx, reported, pulled, yielded>>

\* after the loop: flush and clear the partial batch, print the count
sqlite_final ==
    /\ path = "sqlite" /\ pc = "final"
    /\ IF batch # <<>>
       THEN \E status \in StatusCodes :
               /\ upserts' = Append(upserts, Call(batch, status))
               /\ IF upsert_batch(status) # "none"
                  THEN /\ exc' = upsert_batch(status) /\ pc' = "aborted"
                       /\ UNCHANGED <<batch, total, reported>>
                  ELSE /\ total' = total + Len(batch)
                       /\ batch' = <<>>
                       /\ reported' = total'
                       /\ pc' = "done"
                       /\ UNCHANGED exc
       ELSE /\ reported' = total /\ pc' = "done"
            /\ UNCHANGED <<upserts, batch, total, exc>>
    /\ UNCHANGED <<tvars, cfgvars, othervars, genvars, cur, idx, pulled, handled, yielded>>

Next ==
    \/ parse_msp_blank
    \/ parse_msp_resume_blank
    \/ parse_msp_meta
    \/ parse_msp_peak
    \/ parse_msp_eof
    \/ parse_msp_resume_final
    \/ msp_body
    \/ msp_upsert
    \/ msp_final
    \/ sqlite_fetch
    \/ sqlite_next
    \/ sqlite_body
    \/ sqlite_upsert
    \/ sqlite_final

Spec == Init /\ [][Next]_vars

----------------------------------------------------------------------------
(* search_csv.main: read the CSV, bin it, and either give up or POST /search *)

\* rows as csv.reader returns them: a list of fields.  Two numeric columns, a
\* zero intensity, a header-like row, a row with one field, an empty row.
CsvRows ==
    { <<"0.5", "10.0">>, <<"10.0", "0.5">>, <<"0.5", "0">>,
      <<"x", "10.0">>, <<"0.5">>, <<>> }

RECURSIVE read_csv_pairs_from(_, _, _)
read_csv_pairs_from(rs, mz, inten) ==
    IF rs = <<>> THEN <<mz, inten>>
    ELSE LET row == Head(rs)
         IN  IF row = <<>> \/ Len(row) < 2
             THEN read_csv_pairs_from(Tail(rs), mz, inten)
             ELSE IF ~(IsFloat(<<row[1]>>) /\ IsFloat(<<row[2]>>))
                  THEN read_csv_pairs_from(Tail(rs), mz, inten)
                  ELSE read_csv_pairs_from(Tail(rs),
                           Append(mz, float(<<row[1]>>)),
                           Append(inten, float(<<row[2]>>)))

read_csv_pairs(rs) == read_csv_pairs_from(rs, <<>>, <<>>)

\* a search that posts whatever the binning returned
EmptySpectrum_ignored(v) == FALSE

\* `if not indices`
EmptySpectrum(v) == v.indices = <<>>

\* the JSON body of the POST
SearchBody(v) == [query |-> [indices |-> v.indices, values |-> v.values]]

InitSearch ==
    /\ path = "search" /\ lines = <<>> /\ rows = <<>>
    /\ bin_size \in BinSizes /\ batch_size = 0 /\ id_key = <<>>
    /\ q_csv \in SeqsUpTo(CsvRows, MaxCsvRows)
    /\ q_pc = "read" /\ q_mz = <<>> /\ q_inten = <<>>
    /\ q_vec = NotRun /\ q_sent = <<>> /\ q_ret = -1
    /\ blocks = <<>> /\ IdleCollection /\ IdleTransform /\ IdleFrames

\* search_csv.py line 56
search_read ==
    /\ q_pc = "read"
    /\ q_mz' = read_csv_pairs(q_csv)[1]
    /\ q_inten' = read_csv_pairs(q_csv)[2]
    /\ q_pc' = "bin"
    /\ UNCHANGED <<q_csv, q_vec, q_sent, q_ret>>
    /\ UNCHANGED <<tvars, cfgvars, genvars, mainvars, histvars, blocks, collvars>>

\* search_csv.py line 57
search_bin ==
    /\ q_pc = "bin"
    /\ q_vec' = bin_spectrum_csv(q_mz, q_inten, bin_size)
    /\ q_pc' = IF q_vec' = RaisedValueError THEN "raised" ELSE "check"
    /\ UNCHANGED <<q_csv, q_mz, q_inten, q_sent, q_ret>>
    /\ UNCHANGED <<tvars, cfgvars, genvars, mainvars, histvars, blocks, collvars>>

\* search_csv.py lines 58-60: nothing to search, return 1
search_reject ==
    /\ q_pc = "check"
    /\ EmptySpectrum(q_vec)
    /\ q_ret' = 1
    /\ q_pc' = "done"
    /\ UNCHANGED <<q_csv, q_mz, q_inten, q_vec, q_sent>>
    /\ UNCHANGED <<tvars, cfgvars, genvars, mainvars, histvars, blocks, collvars>>

\* search_csv.py lines 62-64: the request goes out
search_post ==
    /\ q_pc = "check"
    /\ ~EmptySpectrum(q_vec)
    /\ q_sent' = Append(q_sent, SearchBody(q_vec))
    /\ q_pc' = "posted"
    /\ UNCHANGED <<q_csv, q_mz, q_inten, q_vec, q_ret>>
    /\ UNCHANGED <<tvars, cfgvars, genvars, mainvars, histvars, blocks, collvars>>

\* search_csv.py lines 65-73: raise_for_status, print the hits, return 0
search_response ==
    /\ q_pc = "posted"
    /\ \E status \in StatusCodes :
          IF status >= 400
          THEN q_pc' = "raised" /\ UNCHANGED q_ret
          ELSE q_pc' = "done" /\ q_ret' = 0
    /\ UNCHANGED <<q_csv, q_mz, q_inten, q_vec, q_sent>>
    /\ UNCHANGED <<tvars, cfgvars, genvars, mainvars, histvars, blocks, collvars>>

NextSearch ==
    \/ search_read
    \/ search_bin
    \/ search_reject
    \/ search_post
    \/ search_response

SpecSearch == InitSearch /\ [][NextSearch]_vars

----------------------------------------------------------------------------
(* ingest_msp.main on files with repeated headers, 'num peaks' in another    *)
(* letter case, and lines without a colon                                    *)

L_name2 == <<"NAME", ":", " ", "bar">>
L_NUMPEAKS == <<"NUM", " ", "PEAKS", ":", " ", "1">>
L_junk == <<"junk">>

ParseLines == {L_blank, L_name, L_name2, L_numpeaks, L_NUMPEAKS, L_junk, L_peak}

InitParse ==
    /\ path = "msp"
    /\ blocks = <<>>
    /\ lines \in SeqsUpTo(ParseLines, MaxParseLines)
    /\ rows = <<>>
    /\ id_key = <<>>
    /\ pc = "next"
    /\ cur = NoRecord
    /\ gpc = "loop" /\ pos = 0 /\ meta = EmptyDict /\ peaks = <<>> /\ in_peaks = FALSE
    /\ idx = 0 /\ batch = <<>> /\ total = 0 /\ exc = "none" /\ reported = -1
    /\ upserts = <<>> /\ pulled = 0 /\ handled = 0 /\ yielded = <<>>
    /\ bin_size \in RunBinSizes
    /\ batch_size = 1
    /\ IdleTransform /\ IdleSearch /\ IdleCollection

\* the steps of an MSP ingestion run
NextMsp ==
    \/ parse_msp_blank
    \/ parse_msp_resume_blank
    \/ parse_msp_meta
    \/ parse_msp_peak
    \/ parse_msp_eof
    \/ parse_msp_resume_final
    \/ msp_body
    \/ msp_upsert
    \/ msp_final

SpecParse == InitParse /\ [][NextMsp]_vars

----------------------------------------------------------------------------
(* ingest_msp.main on files written block by block *)

\* a block of an MSP file: its 'key: value' headers, its peak-list header, its
\* peak lines (two numbers), and the blank lines that follow it
Block(hs, np, ps, sep) == [headers |-> hs, numpeaks |-> np, peaks |-> ps, sep |-> sep]

HeaderLine(h) == <<h[1], ":", " ", h[2]>>
PeakLine(p) == <<p[1], " ", p[2]>>
L_space == <<" ">>

BlockHeaders ==
    { <<<<"NAME", "foo">>>>,
      <<<<"NAME", "foo">>, <<"NAME", "bar">>>>,
      <<<<"NAME", "bar">>, <<"MW", "10.0">>>> }

BlockPeaks == { <<<<"0.5", "10.0">>>>, <<<<"10.0", "0.5">>, <<"0.5", "0">>>> }

\* blank lines between two blocks, and after the last one
Separators == { <<L_blank>>, <<L_space, L_blank>> }
Endings == { <<>>, <<L_blank>> }

BlocksWith(seps) ==
    { Block(hs, np, ps, sep) :
        hs \in BlockHeaders, np \in {L_numpeaks, L_NUMPEAKS}, ps \in BlockPeaks, sep \in seps }

\* the files of n blocks
RECURSIVE FilesOf(_)
FilesOf(n) ==
    IF n = 0 THEN {<<>>}
    ELSE IF n = 1 THEN {<<b>> : b \in BlocksWith(Endings)}
    ELSE {<<b>> \o rest : b \in BlocksWith(Separators), rest \in FilesOf(n - 1)}

\* the lines of a block, and of a file
BlockLines(b) ==
    [k \in 1..Len(b.headers) |-> HeaderLine(b.headers[k])]
        \o <<b.numpeaks>>
        \o [k \in 1..Len(b.peaks) |-> PeakLine(b.peaks[k])]
        \o b.sep

RECURSIVE FileLines(_)
FileLines(bs) == IF bs = <<>> THEN <<>> ELSE BlockLines(Head(bs)) \o FileLines(Tail(bs))

InitBlocks ==
    /\ path = "msp"
    /\ blocks \in UNION {FilesOf(n) : n \in 0..MaxBlocks}
    /\ lines = FileLines(blocks)
    /\ rows = <<>>
    /\ id_key = <<>>
    /\ pc = "next"
    /\ cur = NoRecord
    /\ gpc = "loop" /\ pos = 0 /\ meta = EmptyDict /\ peaks = <<>> /\ in_peaks = FALSE
    /\ idx = 0 /\ batch = <<>> /\ total = 0 /\ exc = "none" /\ reported = -1
    /\ upserts = <<>> /\ pulled = 0 /\ handled = 0 /\ yielded = <<>>
    /\ bin_size \in RunBinSizes
    /\ batch_size = 1
    /\ IdleTransform /\ IdleSearch /\ IdleCollection

SpecBlocks == InitBlocks /\ [][NextMsp]_vars

----------------------------------------------------------------------------
(* ensure_collection, called by the startup hook and by every /upsert        *)
(* request.  The handlers are plain `def`s, which the server runs on worker  *)
(* threads, and each server process runs its own startup hook; wpc[w] is the *)
(* frame of worker w: which handler it runs, where it stands, and how many   *)
(* requests it has served.  `exists` is the collection in the index service, *)
(* `creates` the create_collection calls issued while it was absent.         *)

Frame(kind, at, served) == [kind |-> kind, at |-> at, served |-> served]

\* what the index service answers to create_collection for a collection that
\* is already there: the call raises, or it is accepted
CreateOnExisting == {"raises", "accepted"}

\* the step after ensure_collection has returned
AfterEnsure(f) == IF f.kind = "startup" THEN "done" ELSE "upsert"

InitCollection ==
    /\ path = "app" /\ lines = <<>> /\ rows = <<>>
    /\ bin_size = 0 /\ batch_size = 0 /\ id_key = <<>>
    /\ exists \in BOOLEAN
    /\ creates = 0
    /\ \E n \in 1..MaxWorkers :
          wpc \in [1..n -> {Frame("startup", "get", 0), Frame("upsert", "get", 0)}]
    /\ blocks = <<>> /\ IdleSearch /\ IdleTransform /\ IdleFrames

Others == <<tvars, cfgvars, genvars, mainvars, histvars, blocks, searchvars>>

\* client.get_collection(COLLECTION_NAME): returns, or raises when absent
ensure_get(w) ==
    /\ wpc[w].at = "get"
    /\ wpc' = [wpc EXCEPT ![w].at = IF exists THEN AfterEnsure(wpc[w]) ELSE "create"]
    /\ UNCHANGED <<exists, creates, Others>>

\* except Exception: the create_collection request goes out
ensure_create_send(w) ==
    /\ wpc[w].at = "create"
    /\ wpc' = [wpc EXCEPT ![w].at = "creating"]
    /\ creates' = IF exists THEN creates ELSE creates + 1
    /\ UNCHANGED <<exists, Others>>

\* the index service handles the create_collection request
ensure_create_reply(w) ==
    /\ wpc[w].at = "creating"
    /\ IF exists
       THEN \E answer \in CreateOnExisting :
               wpc' = [wpc EXCEPT ![w].at =
                          IF answer = "raises" THEN "failed" ELSE AfterEnsure(wpc[w])]
       ELSE wpc' = [wpc EXCEPT ![w].at = AfterEnsure(wpc[w])]
    /\ exists' = TRUE
    /\ UNCHANGED <<creates, Others>>

\* upsert_points after ensure_collection: client.upsert, then the response
upsert_points(w) ==
    /\ wpc[w].at = "upsert"
    /\ wpc' = [wpc EXCEPT ![w].at = "done", ![w].served = @ + 1]
    /\ UNCHANGED <<exists, creates, Others>>

\* the worker takes the next /upsert request
next_request(w) ==
    /\ wpc[w].kind = "upsert" /\ wpc[w].at \in {"done", "failed"}
    /\ wpc[w].served < MaxRequests
    /\ wpc' = [wpc EXCEPT ![w].at = "get",
                          ![w].served = IF wpc[w].at = "failed" THEN @ + 1 ELSE @]
    /\ UNCHANGED <<exists, creates, Others>>

NextCollection ==
    \/ \E w \in DOMAIN wpc : ensure_get(w)
    \/ \E w \in DOMAIN wpc : ensure_create_send(w)
    \/ \E w \in DOMAIN wpc : ensure_create_reply(w)
    \/ \E w \in DOMAIN wpc : upsert_points(w)
    \/ \E w \in DOMAIN wpc : next_request(w)

SpecCollection == InitCollection /\ [][NextCollection]_vars

----------------------------------------------------------------------------
(* Claims about the transform, checked under SpecTransform *)

AllRun == out.msp # NotRun /\ out.sqlite # NotRun /\ out.csv # NotRun

\* every peak of the input has intensity <= 0 or mz < 0
AllPeaksRejected ==
    /\ Len(in_mz) = Len(in_inten)
    /\ \A k \in 1..Len(in_mz) : in_inten[k] <= 0 \/ in_mz[k] < 0

\* the squares of the values <<v, d>> = v / sqrt(d) of a vector add up to 1
UnitNorm(v) ==
    LET nums == Firsts(v.values)
    IN  /\ SumSq(nums) > 0
        /\ \A k \in 1..Len(v.values) : v.values[k][2] = SumSq(nums)

NonEmptyResult(v) == v.tag = "ok" /\ v.indices # <<>>

\* C2: on every equal-length peak list and bin width, bin_peaks (ingest_msp),
\* bin_spectrum (ingest_sqlite) and bin_spectrum (search_csv) return the same
\* (indices, values).
C2_SameTransform ==
    (AllRun /\ Len(in_mz) = Len(in_inten))
        => (out.msp = out.sqlite /\ out.sqlite = out.csv)

\* C3: when every peak has intensity <= 0 or mz < 0, each transform
\* implementation returns the empty vector.
C3_RejectedPeaksGiveEmpty ==
    AllPeaksRejected =>
        /\ out.msp # NotRun => out.msp = EmptyVec
        /\ out.sqlite # NotRun => out.sqlite = EmptyVec
        /\ out.csv # NotRun => out.csv = EmptyVec

\* C10: every non-empty vector a transform implementation returns has a
\* strictly positive pre-normalisation sum of squares and, after the
\* normalisation, a sum of squares of 1.
C10_NonEmptyIsUnitNorm ==
    /\ NonEmptyResult(out.msp) => UnitNorm(out.msp)
    /\ NonEmptyResult(out.sqlite) => UnitNorm(out.sqlite)
    /\ NonEmptyResult(out.csv) => UnitNorm(out.csv)

----------------------------------------------------------------------------
(* Claims about the shape of the transform's result, under SpecTransform *)

EqualLengths == Len(in_mz) = Len(in_inten)

\* positions of the input peaks that pass the filter of step 1
Survivors == {j \in 1..Len(in_mz) : in_inten[j] > 0 /\ in_mz[j] >= 0}

\* the surviving peaks whose floor(mz / bin_width) is b
SurvivorsIn(b) == {j \in Survivors : FloorDiv(in_mz[j], in_bin) = b}

RECURSIVE IntenSumFrom(_, _)
\* floating-point sum of the intensities at a set of positions, in input order
IntenSumFrom(sum, J) ==
    IF J = {} THEN sum ELSE IntenSumFrom(fadd(sum, in_inten[Min(J)]), J \ {Min(J)})

IntenSum(J) == IntenSumFrom(0, J)

\* indices and values have one entry per bin; indices are >= 0 and ascending
WellFormed(v) ==
    /\ Len(v.indices) = Len(v.values)
    /\ \A k \in 1..Len(v.indices) : v.indices[k] >= 0
    /\ \A k \in 1..(Len(v.indices) - 1) : v.indices[k] < v.indices[k + 1]

\* C11: for every input the transform's output has indices and values of
\* equal length, and indices that are non-negative, strictly increasing and
\* free of duplicates.
C11_IndicesSortedUnique ==
    /\ (out.msp # NotRun) => WellFormed(out.msp)
    /\ (out.csv # NotRun /\ EqualLengths) => WellFormed(out.csv)
    /\ (out.sqlite # NotRun /\ EqualLengths) => WellFormed(out.sqlite)

\* a result with two bins, from peaks given in descending m/z order
C11_Witness ==
    /\ out.msp # NotRun /\ out.csv # NotRun
    /\ Len(out.msp.indices) = 2 /\ Len(out.csv.indices) = 2
    /\ Len(in_mz) >= 2 /\ in_mz[1] > in_mz[2] /\ in_inten[1] > 0 /\ in_inten[2] > 0
    /\ FloorDiv(in_mz[1], in_bin) # FloorDiv(in_mz[2], in_bin)

\* the value of each bin, before normalisation, is the sum of the surviving
\* intensities of that bin, and the bins are those that have a survivor
Additive(v) ==
    /\ {v.indices[k] : k \in 1..Len(v.indices)} =
          {FloorDiv(in_mz[j], in_bin) : j \in Survivors}
    /\ \A k \in 1..Len(v.indices) :
          v.values[k][1] = IntenSum(SurvivorsIn(v.indices[k]))

\* C12: before normalisation the value stored for bin b is the sum of the
\* intensities of all surviving peaks whose floor(mz / bin_width) is b.
C12_AdditiveOnCollisions ==
    /\ (out.msp # NotRun) => Additive(out.msp)
    /\ (out.csv # NotRun /\ EqualLengths) => Additive(out.csv)

\* two surviving peaks of different m/z and different intensity met in one bin
C12_Witness ==
    /\ out.msp # NotRun /\ out.csv # NotRun
    /\ \E j \in Survivors : \E k \in Survivors :
          /\ in_mz[j] # in_mz[k] /\ in_inten[j] # in_inten[k]
          /\ FloorDiv(in_mz[j], in_bin) = FloorDiv(in_mz[k], in_bin)

\* the permutations of 1..n
Perms(n) == {p \in [1..n -> 1..n] : \A a \in 1..n : \A b \in 1..n : p[a] = p[b] => a = b}

\* the permutations of the inputs of each length
PermsOfLen == [n \in 0..MaxPeaks |-> Perms(n)]

Permuted(q, p) == [k \in 1..Len(q) |-> q[p[k]]]

\* exactly one of bin_peaks and search_csv.bin_spectrum has been applied
OneRun ==
    \/ out.msp # NotRun /\ out.sqlite = NotRun /\ out.csv = NotRun
    \/ out.csv # NotRun /\ out.sqlite = NotRun /\ out.msp = NotRun

\* the transform of the permuted input gives the same indices and values
SameUnder(p) ==
    /\ (out.msp # NotRun /\ out.sqlite = NotRun /\ out.csv = NotRun) =>
          bin_peaks(Permuted(Zip(in_mz, in_inten), p), in_bin) = out.msp
    /\ (out.csv # NotRun /\ out.sqlite = NotRun /\ out.msp = NotRun /\ EqualLengths) =>
          bin_spectrum_csv(Permuted(in_mz, p), Permuted(in_inten, p), in_bin) = out.csv

\* the transform of the permuted input gives the same indices
SameIndicesUnder(p) ==
    /\ (out.msp # NotRun /\ out.sqlite = NotRun /\ out.csv = NotRun) =>
          bin_peaks(Permuted(Zip(in_mz, in_inten), p), in_bin).indices = out.msp.indices
    /\ (out.csv # NotRun /\ out.sqlite = NotRun /\ out.msp = NotRun /\ EqualLengths) =>
          bin_spectrum_csv(Permuted(in_mz, p), Permuted(in_inten, p), in_bin).indices
             = out.csv.indices

\* no bin receives more than two surviving peaks
AtMostTwoPerBin ==
    \A j \in Survivors : Cardinality(SurvivorsIn(FloorDiv(in_mz[j], in_bin))) <= 2

\* C13 as stated: permuting the input peak sequence leaves the transform's
\* result unchanged (same indices, same values).
C13_OrderIndependent ==
    (EqualLengths /\ OneRun) => \A p \in PermsOfLen[Len(in_mz)] : SameUnder(p)

\* C13 amended: permuting the input peak sequence leaves the indices of the
\* result unchanged, and leaves the values unchanged when no bin receives more
\* than two surviving peaks (the floating-point sum of three or more
\* intensities depends on the order of the additions).
C13_OrderIndependentUpToRounding ==
    (EqualLengths /\ OneRun) =>
        \A p \in PermsOfLen[Len(in_mz)] :
            /\ SameIndicesUnder(p)
            /\ AtMostTwoPerBin => SameUnder(p)

\* a result computed from two colliding peaks of different intensity and a
\* third peak in a higher bin that came first
C13_Witness ==
    /\ out.msp # NotRun /\ out.sqlite = NotRun /\ out.csv = NotRun
    /\ Len(in_mz) = 3 /\ Survivors = {1, 2, 3}
    /\ FloorDiv(in_mz[1], in_bin) > FloorDiv(in_mz[2], in_bin)
    /\ FloorDiv(in_mz[2], in_bin) = FloorDiv(in_mz[3], in_bin)
    /\ in_inten[2] # in_inten[3]

----------------------------------------------------------------------------
(* Claims about the MSP parser, checked under Spec *)

BufferNonEmpty == peaks # <<>> \/ meta # EmptyDict

BufferReset == meta = EmptyDict /\ peaks = <<>> /\ ~in_peaks

\* the step in which the generator reads a blank line
BlankStep ==
    /\ Resumed /\ gpc = "loop" /\ pos < Len(lines)
    /\ strip(lines[pos + 1]) = <<>>
    /\ pos' = pos + 1

\* the step in which the generator finds the input exhausted
EofStep == Resumed /\ gpc = "loop" /\ pos = Len(lines) /\ pc' # pc

\* the step hands the buffered record to the consumer
EmitsBuffer == yielded' = Append(yielded, Record(meta, peaks)) /\ cur' = Record(meta, peaks)

\* C4 as stated: a blank line read with a non-empty buffer (peaks or metadata)
\* emits the buffered record, after which the buffer is emptied and the state
\* is READING_METADATA; a blank line with an empty buffer emits nothing and
\* changes nothing.
C4_BlankFlushesPeaksOrMeta ==
    [][ /\ (BlankStep /\ BufferNonEmpty) => EmitsBuffer
        /\ (BlankStep /\ ~BufferNonEmpty) =>
              (yielded' = yielded /\ UNCHANGED <<meta, peaks, in_peaks>>)
        /\ (gpc = "at_yield_blank" /\ gpc' # gpc) => BufferReset'
      ]_vars

\* C4 amended: a blank line read with at least one buffered peak emits the
\* buffered record, and the buffer is emptied and the state reset when the
\* generator is resumed, before it reads another line; a blank line read with
\* buffered metadata and no peak emits nothing and empties the buffer and
\* resets the state; a blank line with an empty buffer emits nothing and
\* changes nothing.
C4_BlankFlushesPeaks ==
    [][ /\ (BlankStep /\ peaks # <<>>) =>
              (EmitsBuffer /\ gpc' = "at_yield_blank" /\ UNCHANGED <<meta, peaks, in_peaks>>)
        /\ (BlankStep /\ peaks = <<>> /\ meta # EmptyDict) =>
              (yielded' = yielded /\ BufferReset' /\ gpc' = "loop")
        /\ (BlankStep /\ ~BufferNonEmpty) =>
              (yielded' = yielded /\ UNCHANGED <<meta, peaks, in_peaks, gpc>>)
        /\ (gpc = "at_yield_blank" /\ gpc' # gpc) =>
              (BufferReset' /\ gpc' = "loop" /\ pos' = pos /\ yielded' = yielded)
        /\ (pos' # pos) => gpc = "loop"
      ]_vars

\* a record with metadata and peaks was emitted at the blank line just read,
\* and the buffer has been reset
C4_Witness ==
    /\ gpc = "loop" /\ pos > 0 /\ strip(lines[pos]) = <<>>
    /\ Len(yielded) = 1
    /\ yielded[1].metadata # EmptyDict /\ yielded[1].peaks # <<>>
    /\ BufferReset

\* C5 as stated: at end of input a buffer that holds peaks or metadata is
\* emitted as one final record.
C5_EofFlushesPeaksOrMeta ==
    [][ (EofStep /\ BufferNonEmpty) => EmitsBuffer ]_vars

\* C5 amended: at end of input a buffer that holds at least one peak is emitted
\* as one final record (a file without a trailing blank line loses no record
\* that has peaks); a buffer that holds metadata only is not emitted.
C5_EofFlushesPeaks ==
    [][ /\ (EofStep /\ peaks # <<>>) => (EmitsBuffer /\ gpc' = "at_yield_final")
        /\ (EofStep /\ peaks = <<>>) => (yielded' = yielded /\ gpc' = "done")
      ]_vars

\* the second record of a file that does not end with a blank line was
\* emitted by the final flush
C5_Witness ==
    /\ gpc = "at_yield_final"
    /\ lines # <<>> /\ strip(lines[Len(lines)]) # <<>>
    /\ Len(yielded) = 2

----------------------------------------------------------------------------
(* Claims about the ingestion runs, checked under Spec *)

\* an upsert call was answered with a non-success status
FailedCall(k) == upserts[k].status >= 300

Failed == \E k \in DOMAIN upserts : FailedCall(k)

RECURSIVE SentIds(_)
\* the identifiers of the points of a sequence of upsert calls, in order
SentIds(calls) ==
    IF calls = <<>> THEN <<>>
    ELSE [k \in 1..Len(Head(calls).points) |-> Head(calls).points[k].id] \o SentIds(Tail(calls))

RECURSIVE Upto(_)
Upto(n) == IF n = 0 THEN <<>> ELSE Append(Upto(n - 1), n)

\* the MSP record k has a non-empty fingerprint
MspKept(k) == bin_peaks(yielded[k].peaks, bin_size).indices # <<>>

\* the table row k decodes and has a non-empty fingerprint
SqliteKept(k) ==
    LET mz == parse_json_array(rows[k].mz_json)
        intensities == parse_json_array(rows[k].inten_json)
        v == bin_spectrum_sqlite(mz.val, intensities.val, bin_size)
    IN  mz.ok /\ intensities.ok /\ v.tag = "ok" /\ v.indices # <<>>

\* the records of the source with a non-empty fingerprint, in source order
ExpectedIds ==
    IF path = "msp"
    THEN SelectSeq(Upto(Len(yielded)), MspKept)
    ELSE SelectSeq(Upto(Len(rows)), SqliteKept)

\* C1: in the SQLite ingestion a row whose decoded mass and intensity lists
\* differ in length is skipped and never aborts the run.
C1_MismatchedRowNeverAborts == exc # "ValueError"

\* C6 as stated: in every ingestion path no record is pulled from the source
\* before the previous one has been fully handled.
C6_LazyEveryPath == pulled <= handled + 1

\* C6 amended: in the MSP path record k+1 is not pulled from the parser until
\* record k has been dropped or batched and any flush it caused has returned;
\* in the SQLite path all rows are read from the cursor into a list before the
\* first is handled, and row k+1 is not taken from that list until row k has
\* been dropped or batched and any flush it caused has returned.
C6_LazyMspListedSqlite ==
    /\ path = "msp" =>
          /\ pulled <= handled + 1
          /\ pc = "next" => pulled = handled
          /\ pc \in {"body", "flush"} => pulled = handled + 1
    /\ path = "sqlite" =>
          /\ pulled = (IF pc = "fetch" THEN 0 ELSE Len(rows))
          /\ idx <= handled + 1
          /\ pc = "next" => idx = handled
          /\ pc \in {"body", "flush"} => idx = handled + 1

\* the MSP parser is suspended with the second record while its flush is
\* outstanding and the first record is done with
C6_Witness ==
    path = "msp" /\ pc = "flush" /\ pulled = 2 /\ handled = 1 /\ gpc = "at_yield_final"

\* C7: once an upsert call has signalled non-success the run is aborted: the
\* failed call is the last one, no count is reported, and nothing more happens
\* (no record transformed or batched, no further upsert).
C7_UpsertFailureAborts ==
    /\ [](Failed =>
            /\ pc = "aborted"
            /\ reported = -1
            /\ \A k \in DOMAIN upserts : FailedCall(k) => k = Len(upserts))
    /\ [][Failed => UNCHANGED vars]_vars

\* the second upsert of a run failed while rows were still waiting
C7_Witness ==
    /\ path = "sqlite" /\ Failed /\ Len(upserts) = 2 /\ idx < Len(rows)
    /\ pc = "aborted" /\ batch # <<>>

\* C8: when the loop has run to the end of the stream and no upsert failed, the
\* points sent are exactly the records with a non-empty fingerprint, once each
\* and in source order, and the reported count is their number.
C8_AllSentOnceInOrder ==
    pc = "done" =>
        /\ ~Failed
        /\ batch # <<>> => (path = "msp" /\ upserts # <<>> /\ upserts[Len(upserts)].points = batch)
        /\ SentIds(upserts) = ExpectedIds
        /\ reported = Len(ExpectedIds)

\* a finished run that dropped a record and flushed a partial batch at the end
C8_Witness ==
    /\ pc = "done" /\ upserts # <<>>
    /\ Len(upserts[Len(upserts)].points) < batch_size
    /\ reported < handled

\* C9: for a capacity C >= 1 the pending batch holds fewer than C points
\* whenever the next record is pulled, every upsert call carries 1..C points,
\* and every upsert call but the last carries exactly C.
C9_BatchCapacity ==
    batch_size >= 1 =>
        /\ pc \in {"fetch", "next"} => Len(batch) < batch_size
        /\ \A k \in DOMAIN upserts :
              /\ 1 <= Len(upserts[k].points) /\ Len(upserts[k].points) <= batch_size
              /\ k < Len(upserts) => Len(upserts[k].points) = batch_size

\* a full batch of two was followed by a final partial batch of one
C9_Witness ==
    /\ batch_size = 2 /\ Len(upserts) = 2
    /\ Len(upserts[1].points) = 2 /\ Len(upserts[2].points) = 1

----------------------------------------------------------------------------
(* Claims about the query path, checked under SpecSearch *)

\* the binning has run and returned the empty fingerprint
EmptyFingerprint == q_vec # NotRun /\ q_vec # RaisedValueError /\ q_vec.indices = <<>>

\* C14: a query whose fingerprint is empty is rejected and no search request
\* is ever sent for it; every request that is sent carries a non-empty
\* SparseVector (as many values as indices), and at most one is sent.
C14_EmptyQueryNeverSent ==
    /\ EmptyFingerprint => q_sent = <<>> /\ q_pc \in {"check", "done"} /\ q_ret \in {-1, 1}
    /\ (EmptyFingerprint /\ q_pc = "done") => q_ret = 1
    /\ Len(q_sent) <= 1
    /\ \A k \in DOMAIN q_sent :
          /\ q_sent[k].query.indices # <<>>
          /\ Len(q_sent[k].query.values) = Len(q_sent[k].query.indices)
          /\ q_sent[k] = SearchBody(q_vec)

\* a CSV whose rows were read as pairs, all of them dropped by the binning,
\* has been rejected
C14_Witness ==
    /\ q_pc = "done" /\ q_ret = 1 /\ q_sent = <<>>
    /\ q_mz # <<>> /\ EmptyFingerprint

----------------------------------------------------------------------------
(* Claims about the states of the MSP parser, checked under Spec *)

\* the generator takes the next line of the file in this step
ReadsLine == gpc = "loop" /\ pos < Len(lines) /\ pos' = pos + 1

\* the line taken in this step is blank after strip()
ReadsBlank == ReadsLine /\ strip(lines[pos + 1]) = <<>>

\* the generator, suspended in the blank-line branch, runs the reset
ResumesAfterBlank == gpc = "at_yield_blank" /\ gpc' = "loop"

LeavesPeaks ==
    (ReadsLine /\ ~ReadsBlank /\ in_peaks) => (in_peaks' /\ meta' = meta)

OnlyBlankReturns ==
    (in_peaks /\ ~in_peaks') => (ReadsBlank \/ ResumesAfterBlank)

\* C15: while the parser reads peaks, a non-blank line (a line with a colon
\* included) keeps it reading peaks and leaves the metadata as it was; the
\* parser goes back to reading metadata only on a blank line.
C15_NoRegressFromPeaks == [][LeavesPeaks /\ OnlyBlankReturns]_vars

\* a header line has been read while the parser read peaks, and it is still
\* reading peaks with no metadata
C15_Witness ==
    /\ gpc = "loop" /\ pos >= 2
    /\ lines[pos - 1] = L_numpeaks /\ lines[pos] = L_name
    /\ in_peaks /\ <<"NAME">> \notin DOMAIN meta

\* the last line the generator took is blank and its branch has run to `continue`
BlankProcessed == gpc = "loop" /\ pos > 0 /\ strip(lines[pos]) = <<>>

----------------------------------------------------------------------------
(* Claims about the header lines of an MSP block, checked under SpecParse *)

\* the key is 'num peaks' in some letter case
IsNumPeaks(key) ==
    key \in {<<a, " ", b>> : a \in {"num", "Num", "NUM"}, b \in {"peaks", "Peaks", "PEAKS"}}

NoNumPeaksKey ==
    /\ \A key \in DOMAIN meta : ~IsNumPeaks(key)
    /\ \A k \in DOMAIN yielded : \A key \in DOMAIN yielded[k].metadata : ~IsNumPeaks(key)

\* what a non-blank line does to a parser that reads metadata
HeaderStep ==
    (ReadsLine /\ ~ReadsBlank /\ ~in_peaks) =>
        LET line == strip(lines[pos + 1])
            key == strip(split_colon(line)[1])
            value == strip(split_colon(line)[2])
        IN  /\ peaks' = peaks /\ yielded' = yielded
            /\ IF ~HasColon(line)
               THEN meta' = meta /\ ~in_peaks'
               ELSE IF IsNumPeaks(key)
                    THEN meta' = meta /\ in_peaks'
                    ELSE /\ ~in_peaks'
                         /\ DOMAIN meta' = DOMAIN meta \cup {key}
                         /\ meta'[key] = value
                         /\ \A other \in DOMAIN meta \ {key} : meta'[other] = meta[other]

\* C16: a header whose key is 'num peaks' in any letter case starts the peak
\* list and is not stored, so no metadata (the buffer's or an emitted
\* record's) has such a key; any other 'key: value' line stores value under
\* key, replacing an earlier value; a line without a colon changes nothing.
C16_HeaderLines == [][HeaderStep /\ NoNumPeaksKey']_vars

\* a record has been emitted from a block that gave NAME twice and wrote the
\* peak-list header in capitals: it carries the later NAME and nothing else
C16_Witness ==
    /\ lines = <<L_name, L_name2, L_NUMPEAKS, L_peak>>
    /\ yielded = <<Record(Put(EmptyDict, <<"NAME">>, <<"bar">>), <<<<50, 1000>>>>)>>

----------------------------------------------------------------------------
(* Claims about whole files of blocks, checked under SpecBlocks *)

\* the metadata a block's headers spell, a later header replacing an earlier
\* one with the same key
RECURSIVE HeadersMeta(_, _)
HeadersMeta(hs, m) ==
    IF hs = <<>> THEN m
    ELSE HeadersMeta(Tail(hs), Put(m, <<Head(hs)[1]>>, <<Head(hs)[2]>>))

\* the record a block stands for
BlockRecord(b) ==
    Record(HeadersMeta(b.headers, EmptyDict),
           [k \in 1..Len(b.peaks) |-> <<NumTok[b.peaks[k][1]], NumTok[b.peaks[k][2]]>>])

\* C17: a file of N well-formed blocks separated by blank lines gives exactly
\* N records, in the order of the blocks, each with the metadata and the peaks
\* of its block; a record once emitted keeps them when the parser resets its
\* buffer for the next block.
C17_OneRecordPerBlock ==
    /\ Len(yielded) <= Len(blocks)
    /\ \A k \in DOMAIN yielded : yielded[k] = BlockRecord(blocks[k])
    /\ gpc = "done" => Len(yielded) = Len(blocks)

\* a file of two different blocks has been parsed to its end, the reset after
\* the first block included
C17_Witness ==
    /\ gpc = "done" /\ Len(blocks) = 2 /\ Len(yielded) = 2
    /\ yielded[1] # yielded[2]
    /\ yielded[1].metadata # EmptyDict

----------------------------------------------------------------------------
(* Claims about ensure_collection, checked under SpecCollection *)

\* C19: however the invocations of ensure_collection interleave, the
\* collection exists once an invocation has returned, create_collection is
\* issued at most once while the collection is absent, and no invocation
\* fails because another one created the collection first.
C19_EnsureIdempotent ==
    /\ \A w \in DOMAIN wpc : wpc[w].at \in {"upsert", "done"} => exists
    /\ creates <= 1
    /\ \A w \in DOMAIN wpc : wpc[w].at # "failed"

====
